---- MODULE Spec2Model ----
(***************************************************************************)
(* Model of the switch management console (module 9), its device           *)
(* operations and output parsers, and of the one-shot IaC deployment       *)
(* scripts (module 6).  Text is a sequence of one-character strings, so    *)
(* that parsing and formatting are computed character by character.        *)
(***************************************************************************)
EXTENDS Naturals, Integers, Sequences, FiniteSets

VARIABLES MANAGED_SWITCHES, selected_switch, pc, choice, typed, printed, trace,
          open_sessions,
          output, vlans, vlan_assignment, parsed,
          script, rendered_config, result, calls

consoleVars == <<MANAGED_SWITCHES, selected_switch, pc, choice, typed, printed, trace,
                 open_sessions>>
parseVars == <<output, vlans, vlan_assignment, parsed>>
deployVars == <<script, rendered_config, result, calls>>
vars == <<consoleVars, parseVars, deployVars>>

(* ------------------------------ bounds -------------------------------- *)
\* longest managed-switch list config.py is given
NumSwitches == 2
\* most lines of a device response handed to a parser
MaxLines == 2
\* most lines of a rendered configuration
MaxRenderLines == 2

(* --------------------------- text primitives -------------------------- *)
Digits == {"0", "1", "2", "3", "4", "5", "6", "7", "8", "9"}
Letters == {"a", "b", "c", "d", "e", "f", "g", "h", "i", "j", "k", "l", "m",
            "n", "o", "p", "q", "r", "s", "t", "u", "v", "w", "x", "y", "z",
            "A", "B", "C", "D", "E", "F", "G", "H", "I", "J", "K", "L", "M",
            "N", "O", "P", "Q", "R", "S", "T", "U", "V", "W", "X", "Y", "Z"}
\* \s of the re module and the characters str.strip() removes
Whitespace == {" ", "\t", "\n", "\r"}
\* [a-zA-Z0-9_-]
NameChars == Letters \cup Digits \cup {"_", "-"}
\* \w
WordChars == Letters \cup Digits \cup {"_"}
\* the other characters that occur in the texts of the model
Punctuation == {",", "/", ":", ".", "(", ")", "!", "#"}
Chars == Letters \cup Digits \cup Whitespace \cup Punctuation \cup {"_", "-"}
\* what . matches: any character but a line feed
Dot == Chars \ {"\n"}

Drop(s, n) == SubSeq(s, n + 1, Len(s))

\* length of the longest prefix of s made of characters of S: what a greedy
\* S* consumes when the next pattern item cannot start with a character of S
PrefixLen(S, s) ==
  IF \A i \in 1..Len(s) : s[i] \in S THEN Len(s)
  ELSE (CHOOSE i \in 1..Len(s) : s[i] \notin S /\ \A j \in 1..(i - 1) : s[j] \in S) - 1

SuffixLen(S, s) ==
  IF \A i \in 1..Len(s) : s[i] \in S THEN Len(s)
  ELSE Len(s) - (CHOOSE i \in 1..Len(s) : s[i] \notin S /\ \A j \in (i + 1)..Len(s) : s[j] \in S)

StartsWith(s, p) == Len(p) <= Len(s) /\ SubSeq(s, 1, Len(p)) = p

\* str.strip()
Strip(s) ==
  LET a == PrefixLen(Whitespace, s)
      t == Drop(s, a)
  IN  SubSeq(t, 1, Len(t) - SuffixLen(Whitespace, t))

\* str.split(sep) for a one-character separator: "" gives [""]
RECURSIVE Split(_, _)
Split(s, sep) ==
  IF \A i \in 1..Len(s) : s[i] # sep THEN <<s>>
  ELSE LET i == CHOOSE k \in 1..Len(s) : s[k] = sep /\ \A j \in 1..(k - 1) : s[j] # sep
       IN  <<SubSeq(s, 1, i - 1)>> \o Split(Drop(s, i), sep)

\* str.splitlines() on line feeds: "" gives [], a final line feed adds no line
RECURSIVE SplitLines(_)
SplitLines(s) ==
  IF s = <<>> THEN <<>>
  ELSE IF \A i \in 1..Len(s) : s[i] # "\n" THEN <<s>>
  ELSE LET i == CHOOSE k \in 1..Len(s) : s[k] = "\n" /\ \A j \in 1..(k - 1) : s[j] # "\n"
       IN  <<SubSeq(s, 1, i - 1)>> \o SplitLines(Drop(s, i))

RECURSIVE Join(_, _)
Join(lines, sep) ==
  IF lines = <<>> THEN <<>>
  ELSE IF Len(lines) = 1 THEN lines[1]
  ELSE lines[1] \o sep \o Join(Tail(lines), sep)

\* [f(x) for x in xs if p(x)] for the two comprehensions of the source
RECURSIVE StripNonEmpty(_)
StripNonEmpty(xs) ==
  IF xs = <<>> THEN <<>>
  ELSE (IF Strip(xs[1]) # <<>> THEN <<Strip(xs[1])>> ELSE <<>>) \o StripNonEmpty(Tail(xs))

RECURSIVE KeepNonBlank(_)
KeepNonBlank(xs) ==
  IF xs = <<>> THEN <<>>
  ELSE (IF Strip(xs[1]) # <<>> THEN <<xs[1]>> ELSE <<>>) \o KeepNonBlank(Tail(xs))

\* the sequences of at most n elements of S
RECURSIVE SeqsUpTo(_, _)
SeqsUpTo(S, n) ==
  IF n = 0 THEN {<<>>}
  ELSE SeqsUpTo(S, n - 1)
       \cup {Append(xs, x) : xs \in {y \in SeqsUpTo(S, n - 1) : Len(y) = n - 1}, x \in S}

(* ------------------------------ sessions ------------------------------ *)
None == [none |-> TRUE]
NoSession == "None"

\* one call of a session method: the commands handed over and what came back
Sent(method, cmds, resp) ==
  [ev |-> method, cmds |-> cmds, raised |-> resp.raises, output |-> resp.output]
\* a device operation handing its value back to its caller
Return(op, value) == [ev |-> "return", op |-> op, value |-> value]
Msg(text, args) == [msg |-> text, args |-> args]

\* how ConnectHandler(**device_info) ends
ConnectOutcomes == {"ok", "NetmikoTimeoutException", "NetmikoAuthenticationException",
                    "NetmikoBaseException", "Exception"}
NetmikoExceptions == {"NetmikoTimeoutException", "NetmikoAuthenticationException",
                      "NetmikoBaseException"}

\* a response of the device to one send_command / send_config_set call
Raises == [raises |-> TRUE, output |-> <<>>]
Returns(text) == [raises |-> FALSE, output |-> text]

(* --------------------------- switch_ops.py ---------------------------- *)
\* get_switch_connection: every exception of ConnectHandler is caught, logged
\* and turned into None
\* The connect event records what ConnectHandler did (cause) beside what the
\* function handed back (returned) and logged (log).
Connected(device_info, outcome, raised, returned, log) ==
  [raised |-> raised, net_connect |-> returned, log |-> log,
   trace |-> <<[ev |-> "connect", host |-> device_info.host, cause |-> outcome,
                returned |-> returned, log |-> log]>>]

\* get_switch_connection without its last except clause
get_switch_connection_narrow(device_info, outcome) ==
  IF outcome = "ok"
  THEN Connected(device_info, outcome, FALSE, "session", "Successfully connected")
  ELSE IF outcome \in NetmikoExceptions
  THEN Connected(device_info, outcome, FALSE, NoSession, "Connection error")
  ELSE Connected(device_info, outcome, TRUE, NoSession, "")

get_switch_connection(device_info, outcome) ==
  IF outcome = "ok"
  THEN Connected(device_info, outcome, FALSE, "session", "Successfully connected")
  ELSE IF outcome \in NetmikoExceptions
  THEN Connected(device_info, outcome, FALSE, NoSession, "Connection error")
  ELSE Connected(device_info, outcome, FALSE, NoSession, "An unexpected error occurred")

\* a device operation that ended by returning value, after the session calls
\* in sent; Propagated is one that an exception left instead
Returned(op, value, sent) ==
  [raised |-> FALSE, value |-> value, trace |-> sent \o <<Return(op, value)>>]
Propagated(sent) == [raised |-> TRUE, value |-> FALSE, trace |-> sent]

\* the alternation (active|act/unsup|suspended), tried in this order
Statuses == << <<"a", "c", "t", "i", "v", "e">>, <<"a", "c", "t", "/", "u", "n", "s", "u", "p">>, <<"s", "u", "s", "p", "e", "n", "d", "e", "d">> >>

NoMatch == [matched |-> FALSE, g1 |-> <<>>, g2 |-> <<>>, g3 |-> <<>>, g4 |-> <<>>]

\* vlan_pattern.match(s) for
\* (\d+)\s+([a-zA-Z0-9_-]+)\s+(active|act/unsup|suspended)\s*(.*)
\* anchored at the start of s only; every greedy run is maximal because the
\* item after it cannot start with a character of the run
vlan_pattern_match(s) ==
  LET n1 == PrefixLen(Digits, s)
      r1 == Drop(s, n1)
      n2 == PrefixLen(Whitespace, r1)
      r2 == Drop(r1, n2)
      n3 == PrefixLen(NameChars, r2)
      r3 == Drop(r2, n3)
      n4 == PrefixLen(Whitespace, r3)
      r4 == Drop(r3, n4)
      alts == {k \in 1..Len(Statuses) : StartsWith(r4, Statuses[k])}
  IN  IF n1 = 0 \/ n2 = 0 \/ n3 = 0 \/ n4 = 0 \/ alts = {} THEN NoMatch
      ELSE LET k == CHOOSE a \in alts : \A b \in alts : a <= b
               r5 == Drop(r4, Len(Statuses[k]))
               r6 == Drop(r5, PrefixLen(Whitespace, r5))
               \* . does not match a line feed
               n6 == PrefixLen(Dot, r6)
           IN  [matched |-> TRUE, g1 |-> SubSeq(s, 1, n1), g2 |-> SubSeq(r2, 1, n3),
                g3 |-> Statuses[k], g4 |-> SubSeq(r6, 1, n6)]

\* the comprehension without its "if p.strip()"
RECURSIVE StripAll(_)
StripAll(xs) == IF xs = <<>> THEN <<>> ELSE <<Strip(xs[1])>> \o StripAll(Tail(xs))
vlan_ports_keep_empty(g4) == StripAll(Split(g4, ","))

\* [p.strip() for p in match.group(4).split(',') if p.strip()]
vlan_ports(g4) == StripNonEmpty(Split(g4, ","))

\* the loop over output.splitlines(): one record appended per matching line
RECURSIVE vlan_rows(_)
vlan_rows(lines) ==
  IF lines = <<>> THEN <<>>
  ELSE LET match == vlan_pattern_match(Strip(lines[1]))
       IN  (IF match.matched
            THEN <<[id |-> match.g1, name |-> match.g2, status |-> match.g3,
                    ports |-> vlan_ports(match.g4)]>>
            ELSE <<>>) \o vlan_rows(Tail(lines))

show_vlan_brief == <<"s", "h", "o", "w", " ", "v", "l", "a", "n", " ", "b", "r", "i", "e", "f">>

\* get_vlan_brief(net_connect); resp is what the session does with the command
get_vlan_brief(resp) ==
  LET sent == <<Sent("send_command", <<show_vlan_brief>>, resp)>>
  IN  IF resp.raises
      THEN Returned("get_vlan_brief", <<>>, sent)
      ELSE Returned("get_vlan_brief", vlan_rows(SplitLines(resp.output)), sent)

\* re.search(label \s+ (class+), text): the leftmost position where the label
\* is followed by at least one whitespace character and then a character of
\* the class; group 1 is the longest run of the class there
re_search(label, class, text) ==
  LET After(i) == Drop(text, i - 1 + Len(label))
      Value(i) == Drop(After(i), PrefixLen(Whitespace, After(i)))
      hits == {i \in 1..Len(text) :
                 /\ StartsWith(Drop(text, i - 1), label)
                 /\ PrefixLen(Whitespace, After(i)) >= 1
                 /\ PrefixLen(class, Value(i)) >= 1}
  IN  IF hits = {} THEN [found |-> FALSE, group1 |-> <<>>]
      ELSE LET i == CHOOSE a \in hits : \A b \in hits : a <= b
           IN  [found |-> TRUE, group1 |-> SubSeq(Value(i), 1, PrefixLen(class, Value(i)))]

AccessLabel == <<"A", "c", "c", "e", "s", "s", " ", "M", "o", "d", "e", " ", "V", "L", "A", "N", ":">>
AdminLabel == <<"A", "d", "m", "i", "n", "i", "s", "t", "r", "a", "t", "i", "v", "e", " ", "M", "o", "d", "e", ":">>
OperLabel == <<"O", "p", "e", "r", "a", "t", "i", "o", "n", "a", "l", " ", "M", "o", "d", "e", ":">>

\* the three searches chained with elif: at most one field is reported
switchport_fields_elif(text) ==
  LET access_vlan_match == re_search(AccessLabel, Digits, text)
      admin_mode_match == re_search(AdminLabel, WordChars, text)
      oper_mode_match == re_search(OperLabel, WordChars, text)
  IN  IF access_vlan_match.found THEN [k \in {"access_vlan"} |-> access_vlan_match.group1]
      ELSE IF admin_mode_match.found THEN [k \in {"admin_mode"} |-> admin_mode_match.group1]
      ELSE IF oper_mode_match.found THEN [k \in {"oper_mode"} |-> oper_mode_match.group1]
      ELSE [k \in {} |-> <<>>]

\* the three independent searches of get_interface_vlan_assignment
switchport_fields(text) ==
  LET access_vlan_match == re_search(AccessLabel, Digits, text)
      admin_mode_match == re_search(AdminLabel, WordChars, text)
      oper_mode_match == re_search(OperLabel, WordChars, text)
      keys == (IF access_vlan_match.found THEN {"access_vlan"} ELSE {})
              \cup (IF admin_mode_match.found THEN {"admin_mode"} ELSE {})
              \cup (IF oper_mode_match.found THEN {"oper_mode"} ELSE {})
  IN  [k \in keys |-> IF k = "access_vlan" THEN access_vlan_match.group1
                      ELSE IF k = "admin_mode" THEN admin_mode_match.group1
                      ELSE oper_mode_match.group1]

EmptyDict == [k \in {} |-> <<>>]

show_switchport(interface_name) == <<"s", "h", "o", "w", " ", "i", "n", "t", "e", "r", "f", "a", "c", "e", "s", " ">> \o interface_name \o <<" ", "s", "w", "i", "t", "c", "h", "p", "o", "r", "t">>

\* get_interface_vlan_assignment without its try/except
get_interface_vlan_assignment_uncaught(resp, interface_name) ==
  LET sent == <<Sent("send_command", <<show_switchport(interface_name)>>, resp)>>
  IN  IF resp.raises
      THEN Propagated(sent)
      ELSE Returned("get_interface_vlan_assignment", switchport_fields(resp.output), sent)

get_interface_vlan_assignment(resp, interface_name) ==
  LET sent == <<Sent("send_command", <<show_switchport(interface_name)>>, resp)>>
  IN  IF resp.raises
      THEN Returned("get_interface_vlan_assignment", EmptyDict, sent)
      ELSE Returned("get_interface_vlan_assignment", switchport_fields(resp.output), sent)

\* create_vlan taking an echo that starts with % for a failure
create_vlan_checks_echo(resp, vlan_id, vlan_name) ==
  LET config_commands == << <<"v", "l", "a", "n", " ">> \o vlan_id, <<"n", "a", "m", "e", " ">> \o vlan_name >>
      sent == <<Sent("send_config_set", config_commands, resp)>>
  IN  IF resp.raises \/ StartsWith(resp.output, <<"%">>)
      THEN Returned("create_vlan", FALSE, sent)
      ELSE Returned("create_vlan", TRUE, sent)

create_vlan(resp, vlan_id, vlan_name) ==
  LET config_commands == << <<"v", "l", "a", "n", " ">> \o vlan_id, <<"n", "a", "m", "e", " ">> \o vlan_name >>
      sent == <<Sent("send_config_set", config_commands, resp)>>
  IN  IF resp.raises
      THEN Returned("create_vlan", FALSE, sent)
      ELSE Returned("create_vlan", TRUE, sent)

\* assign_port_to_vlan without its try/except
assign_port_to_vlan_uncaught(resp, interface_name, vlan_id) ==
  LET config_commands == << <<"i", "n", "t", "e", "r", "f", "a", "c", "e", " ">> \o interface_name,
                            <<"s", "w", "i", "t", "c", "h", "p", "o", "r", "t", " ", "m", "o", "d", "e", " ", "a", "c", "c", "e", "s", "s">>,
                            <<"s", "w", "i", "t", "c", "h", "p", "o", "r", "t", " ", "a", "c", "c", "e", "s", "s", " ", "v", "l", "a", "n", " ">> \o vlan_id >>
      sent == <<Sent("send_config_set", config_commands, resp)>>
  IN  IF resp.raises
      THEN Propagated(sent)
      ELSE Returned("assign_port_to_vlan", TRUE, sent)

assign_port_to_vlan(resp, interface_name, vlan_id) ==
  LET config_commands == << <<"i", "n", "t", "e", "r", "f", "a", "c", "e", " ">> \o interface_name,
                            <<"s", "w", "i", "t", "c", "h", "p", "o", "r", "t", " ", "m", "o", "d", "e", " ", "a", "c", "c", "e", "s", "s">>,
                            <<"s", "w", "i", "t", "c", "h", "p", "o", "r", "t", " ", "a", "c", "c", "e", "s", "s", " ", "v", "l", "a", "n", " ">> \o vlan_id >>
      sent == <<Sent("send_config_set", config_commands, resp)>>
  IN  IF resp.raises
      THEN Returned("assign_port_to_vlan", FALSE, sent)
      ELSE Returned("assign_port_to_vlan", TRUE, sent)

(* ------------------------ management_console.py ----------------------- *)
\* what one handler did: the lines it printed, its session calls in order,
\* and whether an exception left it
Effect(lines, events, raised) ==
  [printed |-> lines, trace |-> events, raised |-> raised, typed |-> <<>>]
\* the same, after the operator answered the handler's input() prompts
Typed(answers, effect) == [effect EXCEPT !.typed = answers]

NoSwitchSelected == Effect(<<Msg("No switch selected.", <<>>)>>, <<>>, FALSE)
FailedToConnect(info, conn) == Effect(<<Msg("Failed to connect", <<>>)>>, conn.trace, FALSE)
Disconnect == [ev |-> "disconnect"]

RECURSIVE VlanLines(_)
VlanLines(vs) ==
  IF vs = <<>> THEN <<>>
  ELSE <<Msg("ID, Name, Status, Ports", <<vs[1].id, vs[1].name, vs[1].status, Join(vs[1].ports, <<",", " ">>)>>)>>
       \o VlanLines(Tail(vs))

\* list_vlans without its "if not selected_switch_info" guard: the lookup
\* device_info['host'] on None raises before anything is printed
list_vlans_unguarded(selected_switch_info, outcome, resp) ==
  IF selected_switch_info = None THEN Effect(<<>>, <<>>, TRUE)
  ELSE LET conn == get_switch_connection(selected_switch_info, outcome)
           got == get_vlan_brief(resp)
       IN  IF conn.net_connect = NoSession THEN FailedToConnect(selected_switch_info, conn)
           ELSE Effect(<<Msg("--- VLANs on", <<>>)>>
                         \o (IF got.value # <<>> THEN VlanLines(got.value)
                             ELSE <<Msg("No VLANs found or error retrieving.", <<>>)>>),
                       conn.trace \o got.trace \o <<Disconnect>>, FALSE)

list_vlans(selected_switch_info, outcome, resp) ==
  IF selected_switch_info = None THEN NoSwitchSelected
  ELSE LET conn == get_switch_connection(selected_switch_info, outcome)
           got == get_vlan_brief(resp)
       IN  IF conn.raised THEN Effect(<<>>, conn.trace, TRUE)
           ELSE IF conn.net_connect = NoSession THEN FailedToConnect(selected_switch_info, conn)
           ELSE IF got.raised
           THEN Effect(<<Msg("--- VLANs on", <<>>)>>, conn.trace \o got.trace, TRUE)
           ELSE Effect(<<Msg("--- VLANs on", <<>>)>>
                         \o (IF got.value # <<>> THEN VlanLines(got.value)
                             ELSE <<Msg("No VLANs found or error retrieving.", <<>>)>>),
                       conn.trace \o got.trace \o <<Disconnect>>, FALSE)

\* the first record whose id equals vlan_id, as the loop with break finds it
FirstWithId(vs, vlan_id) ==
  LET hits == {i \in 1..Len(vs) : vs[i].id = vlan_id}
  IN  IF hits = {} THEN 0 ELSE CHOOSE i \in hits : \A j \in hits : i <= j

list_ports_in_vlan(selected_switch_info, vlan_id, outcome, resp) ==
  IF selected_switch_info = None THEN NoSwitchSelected
  ELSE Typed(<<vlan_id>>,
       LET conn == get_switch_connection(selected_switch_info, outcome)
           got == get_vlan_brief(resp)
           i == FirstWithId(got.value, vlan_id)
       IN  IF conn.raised THEN Effect(<<>>, conn.trace, TRUE)
           ELSE IF conn.net_connect = NoSession THEN FailedToConnect(selected_switch_info, conn)
           ELSE IF got.raised
           THEN Effect(<<Msg("--- Ports in VLAN", <<vlan_id>>)>>, conn.trace \o got.trace, TRUE)
           ELSE Effect(<<Msg("--- Ports in VLAN", <<vlan_id>>)>>
                         \o (IF i # 0
                             THEN <<Msg("VLAN Ports", <<vlan_id, got.value[i].name,
                                                        Join(got.value[i].ports, <<",", " ">>)>>)>>
                             ELSE <<Msg("not found or has no assigned ports.", <<vlan_id>>)>>),
                       conn.trace \o got.trace \o <<Disconnect>>, FALSE))

\* handle_create_vlan with net_conn.disconnect() inside the success branch
handle_create_vlan_leaky(selected_switch_info, vlan_id, vlan_name, outcome, resp) ==
  IF selected_switch_info = None THEN NoSwitchSelected
  ELSE Typed(<<vlan_id, vlan_name>>,
       LET conn == get_switch_connection(selected_switch_info, outcome)
           made == create_vlan(resp, vlan_id, vlan_name)
       IN  IF conn.net_connect = NoSession THEN FailedToConnect(selected_switch_info, conn)
           ELSE IF made.value
           THEN Effect(<<Msg("Successfully sent commands to create VLAN", <<vlan_id>>)>>,
                       conn.trace \o made.trace \o <<Disconnect>>, FALSE)
           ELSE Effect(<<Msg("Failed to create VLAN", <<vlan_id>>)>>,
                       conn.trace \o made.trace, FALSE))

handle_create_vlan(selected_switch_info, vlan_id, vlan_name, outcome, resp) ==
  IF selected_switch_info = None THEN NoSwitchSelected
  ELSE Typed(<<vlan_id, vlan_name>>,
       LET conn == get_switch_connection(selected_switch_info, outcome)
           made == create_vlan(resp, vlan_id, vlan_name)
       IN  IF conn.raised THEN Effect(<<>>, conn.trace, TRUE)
           ELSE IF conn.net_connect = NoSession THEN FailedToConnect(selected_switch_info, conn)
           ELSE IF made.raised THEN Effect(<<>>, conn.trace \o made.trace, TRUE)
           ELSE Effect(<<IF made.value
                         THEN Msg("Successfully sent commands to create VLAN", <<vlan_id>>)
                         ELSE Msg("Failed to create VLAN", <<vlan_id>>)>>,
                       conn.trace \o made.trace \o <<Disconnect>>, FALSE))

\* handle_assign_port_to_vlan with the verification moved out of the success
\* branch: the query is sent whether or not the assignment succeeded
handle_assign_port_to_vlan_eager(selected_switch_info, interface_name, vlan_id, outcome, resp, verify) ==
  IF selected_switch_info = None THEN NoSwitchSelected
  ELSE Typed(<<interface_name, vlan_id>>,
       LET conn == get_switch_connection(selected_switch_info, outcome)
           done == assign_port_to_vlan(resp, interface_name, vlan_id)
           assigned_vlan_info == get_interface_vlan_assignment(verify, interface_name)
       IN  IF conn.net_connect = NoSession THEN FailedToConnect(selected_switch_info, conn)
           ELSE Effect(<<IF done.value
                         THEN Msg("Successfully sent commands to assign", <<interface_name, vlan_id>>)
                         ELSE Msg("Failed to assign", <<interface_name, vlan_id>>),
                         IF /\ "access_vlan" \in DOMAIN assigned_vlan_info.value
                            /\ assigned_vlan_info.value["access_vlan"] = vlan_id
                         THEN Msg("Verification: is now in VLAN", <<interface_name, vlan_id>>)
                         ELSE Msg("Verification: Could not confirm", <<interface_name, vlan_id>>)>>,
                       conn.trace \o done.trace \o assigned_vlan_info.trace \o <<Disconnect>>,
                       FALSE))

handle_assign_port_to_vlan(selected_switch_info, interface_name, vlan_id, outcome, resp, verify) ==
  IF selected_switch_info = None THEN NoSwitchSelected
  ELSE Typed(<<interface_name, vlan_id>>,
       LET conn == get_switch_connection(selected_switch_info, outcome)
           done == assign_port_to_vlan(resp, interface_name, vlan_id)
           assigned_vlan_info == get_interface_vlan_assignment(verify, interface_name)
           sent == Msg("Successfully sent commands to assign", <<interface_name, vlan_id>>)
       IN  IF conn.raised THEN Effect(<<>>, conn.trace, TRUE)
           ELSE IF conn.net_connect = NoSession THEN FailedToConnect(selected_switch_info, conn)
           ELSE IF done.raised THEN Effect(<<>>, conn.trace \o done.trace, TRUE)
           ELSE IF ~done.value
           THEN Effect(<<Msg("Failed to assign", <<interface_name, vlan_id>>)>>,
                       conn.trace \o done.trace \o <<Disconnect>>, FALSE)
           ELSE IF assigned_vlan_info.raised
           THEN Effect(<<sent>>, conn.trace \o done.trace \o assigned_vlan_info.trace, TRUE)
           ELSE Effect(<<sent,
                         IF /\ "access_vlan" \in DOMAIN assigned_vlan_info.value
                            /\ assigned_vlan_info.value["access_vlan"] = vlan_id
                         THEN Msg("Verification: is now in VLAN", <<interface_name, vlan_id>>)
                         ELSE Msg("Verification: Could not confirm", <<interface_name, vlan_id>>)>>,
                       conn.trace \o done.trace \o assigned_vlan_info.trace \o <<Disconnect>>,
                       FALSE))

(* ------------------------- the operator's inputs ---------------------- *)
HostNames == <<"10.0.0.1", "10.0.0.2", "10.0.0.3", "10.0.0.4">>
SwitchLists == {[i \in 1..n |-> [host |-> HostNames[i]]] : n \in 0..NumSwitches}

VlanIdInputs == { <<"1", "0">>, <<"2", "0">> }
VlanNameInputs == { <<"D", "A", "T", "A">> }
InterfaceInputs == { <<"G", "i", "0", "/", "1">> }
\* what is typed at "Enter number of switch to select": int() raises
\* ValueError on text that is no number
DigitChars == <<"0", "1", "2", "3", "4", "5", "6", "7", "8", "9">>
NumberInputs == { <<"a", "b", "c">>, <<>> } \cup {<<DigitChars[n + 1]>> : n \in 0..(NumSwitches + 1)}

(* ------------------------- the device's answers ----------------------- *)
VlanBriefResponses ==
  {Raises, Returns(<<>>),
   Returns(<<"V", "L", "A", "N", " ", "N", "a", "m", "e", " ", "S", "t", "a", "t", "u", "s", " ", "P", "o", "r", "t", "s", "\n", "1", "0", " ", "D", "A", "T", "A", " ", "a", "c", "t", "i", "v", "e", " ", "G", "i", "0", "/", "1", ",", " ", "G", "i", "0", "/", "2", "\n">>)}
ConfigResponses == {Raises, Returns(<<"V", "L", "A", "N", " ", "a", "d", "d", "e", "d">>), Returns(<<"%", " ", "I", "n", "v", "a", "l", "i", "d", " ", "i", "n", "p", "u", "t">>)}
SwitchportResponses ==
  {Raises, Returns(<<>>), Returns(<<"A", "c", "c", "e", "s", "s", " ", "M", "o", "d", "e", " ", "V", "L", "A", "N", ":", " ", "1", "0", " ", "(", "D", "A", "T", "A", ")">>)}

(* ------------------------------- main() ------------------------------- *)
ParseIdle ==
  /\ output = <<>>
  /\ vlans = <<>>
  /\ vlan_assignment = EmptyDict
  /\ parsed = "none"

DeployIdle ==
  /\ script = "none"
  /\ rendered_config = <<>>
  /\ result = "none"
  /\ calls = <<>>

Init ==
  /\ MANAGED_SWITCHES \in SwitchLists
  /\ selected_switch = None
  /\ pc = "menu"
  /\ choice = ""
  /\ typed = <<>>
  /\ printed = <<>>
  /\ trace = <<>>
  /\ open_sessions = 0
  /\ ParseIdle
  /\ DeployIdle

IsOpen(e) == e.ev = "connect" /\ e.returned # NoSession
IsDisconnect(e) == e.ev = "disconnect"
Opens(events) == Cardinality({i \in 1..Len(events) : IsOpen(events[i])})
Disconnects(events) == Cardinality({i \in 1..Len(events) : IsDisconnect(events[i])})

\* a handler came back to main(): an exception that left it ends the program
\* with a traceback, otherwise the loop shows the menu again
Handled(ch, effect) ==
  /\ choice' = ch
  /\ typed' = effect.typed
  /\ printed' = effect.printed
  /\ trace' = effect.trace
  /\ pc' = IF effect.raised THEN "crashed" ELSE "menu"
  /\ open_sessions' = open_sessions + Opens(effect.trace)
                                    - Disconnects(effect.trace)
  /\ UNCHANGED <<MANAGED_SWITCHES, selected_switch, parseVars, deployVars>>

\* choice '1': select_switch() up to its first prompt
ChooseSelectSwitch ==
  /\ pc = "menu"
  /\ choice' = "1"
  /\ typed' = <<>>
  /\ trace' = <<>>
  /\ IF MANAGED_SWITCHES = <<>>
     THEN /\ printed' = <<Msg("No switches defined in config.py.", <<>>)>>
          /\ selected_switch' = None
          /\ pc' = "menu"
     ELSE /\ printed' = <<Msg("--- Available Switches ---", <<>>)>>
          /\ pc' = "select_switch"
          /\ UNCHANGED selected_switch
  /\ UNCHANGED <<MANAGED_SWITCHES, open_sessions, parseVars, deployVars>>

\* int(text) for the texts typed at the prompt: a run of decimal digits is a
\* number, anything else raises ValueError
IsNumber(text) == text # <<>> /\ \A i \in 1..Len(text) : text[i] \in Digits
DigitValue(c) == (CHOOSE n \in 1..10 : DigitChars[n] = c) - 1
RECURSIVE int(_)
int(text) ==
  IF text = <<>> THEN 0
  ELSE 10 * int(SubSeq(text, 1, Len(text) - 1)) + DigitValue(text[Len(text)])

\* the selection with MANAGED_SWITCHES[choice]: one entry too far
selected_index_off_by_one(text, switches) ==
  IF IsNumber(text) /\ 1 <= int(text) /\ int(text) < Len(switches) THEN int(text) + 1 ELSE 0

\* one turn of the while True loop of select_switch(): the switch picked by
\* MANAGED_SWITCHES[choice-1] (sequences here start at 1), or 0 to ask again
selected_index(text, switches) ==
  IF IsNumber(text) /\ 1 <= int(text) /\ int(text) <= Len(switches) THEN int(text) ELSE 0

EnterSwitchNumber ==
  /\ pc = "select_switch"
  /\ \E text \in NumberInputs :
       /\ typed' = <<text>>
       /\ IF selected_index(text, MANAGED_SWITCHES) # 0
          THEN /\ printed' = <<Msg("Selected switch", <<>>)>>
               /\ selected_switch' = MANAGED_SWITCHES[selected_index(text, MANAGED_SWITCHES)]
               /\ pc' = "menu"
          ELSE /\ printed' = <<IF IsNumber(text)
                               THEN Msg("Invalid choice. Please enter a valid number.", <<>>)
                               ELSE Msg("Invalid input. Please enter a number.", <<>>)>>
               /\ UNCHANGED <<selected_switch, pc>>
  /\ UNCHANGED <<MANAGED_SWITCHES, choice, trace, open_sessions, parseVars, deployVars>>

ChooseListVlans ==
  /\ pc = "menu"
  /\ \E outcome \in ConnectOutcomes, resp \in VlanBriefResponses :
       Handled("2", list_vlans(selected_switch, outcome, resp))

ChooseListPortsInVlan ==
  /\ pc = "menu"
  /\ \E vlan_id \in VlanIdInputs, outcome \in ConnectOutcomes, resp \in VlanBriefResponses :
       Handled("3", list_ports_in_vlan(selected_switch, vlan_id, outcome, resp))

ChooseCreateVlan ==
  /\ pc = "menu"
  /\ \E vlan_id \in VlanIdInputs, vlan_name \in VlanNameInputs,
        outcome \in ConnectOutcomes, resp \in ConfigResponses :
       Handled("4", handle_create_vlan(selected_switch, vlan_id, vlan_name, outcome, resp))

ChooseAssignPortToVlan ==
  /\ pc = "menu"
  /\ \E interface_name \in InterfaceInputs, vlan_id \in VlanIdInputs,
        outcome \in ConnectOutcomes, resp \in ConfigResponses,
        verify \in SwitchportResponses :
       Handled("5", handle_assign_port_to_vlan(selected_switch, interface_name, vlan_id,
                                                outcome, resp, verify))

ChooseExit ==
  /\ pc = "menu"
  /\ choice' = "6"
  /\ typed' = <<>>
  /\ printed' = <<Msg("Exiting console. Goodbye!", <<>>)>>
  /\ trace' = <<>>
  /\ pc' = "exited"
  /\ UNCHANGED <<MANAGED_SWITCHES, selected_switch, open_sessions,
                 parseVars, deployVars>>

ChooseInvalid ==
  /\ pc = "menu"
  /\ choice' = "other"
  /\ typed' = <<>>
  /\ printed' = <<Msg("Invalid choice. Please try again.", <<>>)>>
  /\ trace' = <<>>
  /\ UNCHANGED <<MANAGED_SWITCHES, selected_switch, pc, open_sessions,
                 parseVars, deployVars>>

Next ==
  \/ ChooseSelectSwitch
  \/ EnterSwitchNumber
  \/ ChooseListVlans
  \/ ChooseListPortsInVlan
  \/ ChooseCreateVlan
  \/ ChooseAssignPortToVlan
  \/ ChooseExit
  \/ ChooseInvalid

Spec == Init /\ [][Next]_vars

(* ------------------- the parsers on their own ------------------------ *)
\* lines of "show vlan brief" and of "show interfaces <name> switchport"
\* answers, well formed and not
ResponseLines ==
  { <<>>,
    <<"V", "L", "A", "N", " ", "N", "a", "m", "e", " ", "S", "t", "a", "t", "u", "s", " ", "P", "o", "r", "t", "s">>,
    <<"1", "0", " ", "D", "A", "T", "A", " ", "a", "c", "t", "i", "v", "e", " ", "G", "i", "0", "/", "1", ",", " ", "G", "i", "0", "/", "2">>,
    <<"2", "0", " ", "M", "G", "M", "T", " ", "a", "c", "t", "i", "v", "e", " ", "G", "i", "0", "/", "1", ",">>,
    <<" ", " ", "1", "0", " ", " ", " ", "D", "A", "T", "A", " ", " ", " ", "a", "c", "t", "i", "v", "e">>,
    <<"3", "0", " ", "v", "-", "3", " ", "a", "c", "t", "/", "u", "n", "s", "u", "p">>,
    <<"4", "0", " ", "X", " ", "s", "u", "s", "p", "e", "n", "d", "e", "d", " ", ",", " ", ",", "F", "a", "0", "/", "1">>,
    <<"1", " ", "d", "e", "f", "a", "u", "l", "t", " ", "a", "c", "t", "i", "v", "e", "F", "a", "0", "/", "1">>,
    <<"1", "0", " ", "D", "A", "T", "A", " ", "d", "o", "w", "n">>,
    <<"1", "0", " ", "D", "A", ".", "T", "A", " ", "a", "c", "t", "i", "v", "e">>,
    <<"N", "a", "m", "e", ":", " ", "G", "i", "0", "/", "1">>,
    <<"A", "d", "m", "i", "n", "i", "s", "t", "r", "a", "t", "i", "v", "e", " ", "M", "o", "d", "e", ":", " ", "t", "r", "u", "n", "k">>,
    <<"O", "p", "e", "r", "a", "t", "i", "o", "n", "a", "l", " ", "M", "o", "d", "e", ":", " ", "d", "o", "w", "n">>,
    <<"A", "c", "c", "e", "s", "s", " ", "M", "o", "d", "e", " ", "V", "L", "A", "N", ":", " ", "1", "0", " ", "(", "D", "A", "T", "A", ")">>,
    <<"A", "c", "c", "e", "s", "s", " ", "M", "o", "d", "e", " ", "V", "L", "A", "N", ":", " ", "u", "n", "a", "s", "s", "i", "g", "n", "e", "d">>,
    <<"A", "d", "m", "i", "n", "i", "s", "t", "r", "a", "t", "i", "v", "e", " ", "M", "o", "d", "e", ":">> }

ResponseTexts == {Join(ls, <<"\n">>) : ls \in SeqsUpTo(ResponseLines, MaxLines)}

InitParse ==
  /\ MANAGED_SWITCHES = <<>>
  /\ selected_switch = None
  /\ pc = "menu"
  /\ choice = ""
  /\ typed = <<>>
  /\ printed = <<>>
  /\ trace = <<>>
  /\ open_sessions = 0
  /\ output \in ResponseTexts
  /\ vlans = <<>>
  /\ vlan_assignment = EmptyDict
  /\ parsed = "none"
  /\ DeployIdle

\* get_vlan_brief on a session that answers "show vlan brief" with output
CallGetVlanBrief ==
  /\ parsed = "none"
  /\ vlans' = get_vlan_brief(Returns(output)).value
  /\ parsed' = "get_vlan_brief"
  /\ UNCHANGED <<output, vlan_assignment, consoleVars, deployVars>>

\* get_interface_vlan_assignment on a session that answers with output
CallGetInterfaceVlanAssignment ==
  /\ parsed = "none"
  /\ \E interface_name \in InterfaceInputs :
       vlan_assignment' = get_interface_vlan_assignment(Returns(output), interface_name).value
  /\ parsed' = "get_interface_vlan_assignment"
  /\ UNCHANGED <<output, vlans, consoleVars, deployVars>>

NextParse ==
  \/ CallGetVlanBrief
  \/ CallGetInterfaceVlanAssignment

SpecParse == InitParse /\ [][NextParse]_vars

(* ----------------- the one-shot deployment scripts -------------------- *)
\* what the data file holds: nothing readable, an empty document (None), a
\* mapping without the wanted entry, or the entry (with or without its name)
DataFiles == {"unreadable", "empty", "no entry", "entry", "entry without name"}
TemplateFiles == {"ok", "TemplateNotFound"}
RenderLines == { <<>>, <<" ">>, <<"r", "o", "u", "t", "e", "r", " ", "o", "s", "p", "f", " ", "1">>, <<" ", "n", "e", "t", "w", "o", "r", "k", " ", "1", "0", ".", "0", ".", "0", ".", "0">> }
\* template.render(...) raises or gives a text
Renderings == {[raises |-> TRUE, text |-> <<>>]}
              \cup {[raises |-> FALSE, text |-> Join(ls, <<"\n">>)] :
                      ls \in SeqsUpTo(RenderLines, MaxRenderLines)}

ROUTER_CONNECTION_INFO == [host |-> "10.10.20.48"]
device == [host |-> "sandbox-iosxe-latest-1.cisco.com"]

Ran(outcome, config, events) == [result |-> outcome, rendered_config |-> config, calls |-> events]
Attempt(info, outcome) == [ev |-> "connect", host |-> info.host, cause |-> outcome]

\* deploy_full_configuration(): "True" and "False" are its return values,
\* "uncaught" an exception that leaves it
deploy_full_configuration(data, template, rendering, outcome, resp) ==
  LET config_commands_list == KeepNonBlank(SplitLines(rendering.text))
      push == Sent("send_config_set", config_commands_list, resp)
  IN  IF data = "unreadable" THEN Ran("False", <<>>, <<>>)
      \* all_network_data.get on None
      ELSE IF data = "empty" THEN Ran("uncaught", <<>>, <<>>)
      ELSE IF data = "no entry" THEN Ran("False", <<>>, <<>>)
      ELSE IF template # "ok" THEN Ran("uncaught", <<>>, <<>>)
      ELSE IF rendering.raises THEN Ran("uncaught", <<>>, <<>>)
      \* target_router_data['name'] in the logging call
      ELSE IF data = "entry without name" THEN Ran("uncaught", rendering.text, <<>>)
      ELSE IF config_commands_list = <<>> THEN Ran("False", rendering.text, <<>>)
      ELSE IF outcome # "ok"
      THEN Ran("False", rendering.text, <<Attempt(ROUTER_CONNECTION_INFO, outcome)>>)
      ELSE Ran(IF resp.raises THEN "False" ELSE "True", rendering.text,
               <<Attempt(ROUTER_CONNECTION_INFO, outcome), push, Disconnect>>)

\* scripts/rollback_ospf.py, top to bottom: "completed" is the end of the
\* script, "uncaught" an exception that ends it
rollback_ospf(data, template, rendering, outcome, resp) ==
  LET push == Sent("send_config_set", SplitLines(rendering.text), resp)
  IN  IF data = "unreadable" THEN Ran("uncaught", <<>>, <<>>)
      ELSE IF template # "ok" THEN Ran("uncaught", <<>>, <<>>)
      \* ospf_data['ospf']
      ELSE IF data \in {"empty", "no entry"} THEN Ran("uncaught", <<>>, <<>>)
      ELSE IF rendering.raises THEN Ran("uncaught", <<>>, <<>>)
      ELSE IF outcome # "ok"
      THEN Ran("uncaught", rendering.text, <<Attempt(device, outcome)>>)
      ELSE Ran(IF resp.raises THEN "uncaught" ELSE "completed", rendering.text,
               <<Attempt(device, outcome), push, Disconnect>>)

InitDeploy ==
  /\ MANAGED_SWITCHES = <<>>
  /\ selected_switch = None
  /\ pc = "menu"
  /\ choice = ""
  /\ typed = <<>>
  /\ printed = <<>>
  /\ trace = <<>>
  /\ open_sessions = 0
  /\ ParseIdle
  /\ DeployIdle

Finished(name, run) ==
  /\ script' = name
  /\ rendered_config' = run.rendered_config
  /\ result' = run.result
  /\ calls' = run.calls
  /\ UNCHANGED <<consoleVars, parseVars>>

RunDeployFullConfig ==
  /\ script = "none"
  /\ \E data \in DataFiles, template \in TemplateFiles, rendering \in Renderings,
        outcome \in ConnectOutcomes, resp \in ConfigResponses :
       Finished("deploy_full_config.py",
                deploy_full_configuration(data, template, rendering, outcome, resp))

RunRollbackOspf ==
  /\ script = "none"
  /\ \E data \in DataFiles, template \in TemplateFiles, rendering \in Renderings,
        outcome \in ConnectOutcomes, resp \in ConfigResponses :
       Finished("rollback_ospf.py", rollback_ospf(data, template, rendering, outcome, resp))

NextDeploy ==
  \/ RunDeployFullConfig
  \/ RunRollbackOspf

SpecDeploy == InitDeploy /\ [][NextDeploy]_vars

(* ------------------------------ properties ---------------------------- *)
IsSend(e) == e.ev \in {"send_command", "send_config_set"}
IsReturn(e) == e.ev = "return"
RaisedAt(i) == IsSend(trace[i]) /\ trace[i].raised
DeviceChoices == {"2", "3", "4", "5"}

\* C1: whatever the session calls of a device-scoped action did, the session
\* get_switch_connection returned is disconnected exactly once, as the last
\* thing the action does, and no session is open once the action is over.
C1_DisconnectExactlyOnce ==
  /\ open_sessions = 0
  /\ Opens(trace) <= 1
  /\ Disconnects(trace) = Opens(trace)
  /\ \A i \in 1..Len(trace) : IsOpen(trace[i]) => i = 1 /\ IsDisconnect(trace[Len(trace)])
  /\ \A i \in 1..Len(trace) : IsDisconnect(trace[i]) => i = Len(trace)

\* an action whose session call raised and which disconnected all the same
C1_Witness ==
  /\ pc = "menu"
  /\ choice = "4"
  /\ \E i \in 1..Len(trace) : RaisedAt(i)
  /\ IsDisconnect(trace[Len(trace)])

\* C2: with no switch selected, menu actions 2, 3, 4 and 5 make no connection
\* attempt, print "No switch selected." and leave the loop at the menu.
C2_NoSwitchNoConnection ==
  (selected_switch = None /\ choice \in DeviceChoices) =>
     /\ trace = <<>>
     /\ open_sessions = 0
     /\ printed = <<Msg("No switch selected.", <<>>)>>
     /\ pc = "menu"

C2_Witness ==
  /\ selected_switch = None
  /\ choice = "2"
  /\ printed = <<Msg("No switch selected.", <<>>)>>

\* the value each device operation returns when the session raised
IsFailureValue(e) ==
  \/ e.op = "get_vlan_brief" /\ e.value = <<>>
  \/ e.op = "get_interface_vlan_assignment" /\ e.value = EmptyDict
  \/ e.op = "create_vlan" /\ e.value = FALSE
  \/ e.op = "assign_port_to_vlan" /\ e.value = FALSE

\* C3: when the session raises while a device operation sends, the operation
\* returns its failure value ([], {}, False, False) and its caller goes on:
\* the exception does not leave the operation.
C3_ExceptionBecomesFailureValue ==
  \A i \in 1..Len(trace) :
     RaisedAt(i) =>
        /\ i < Len(trace)
        /\ IsReturn(trace[i + 1])
        /\ IsFailureValue(trace[i + 1])
        /\ pc = "menu"

\* the verification query of choice 5 raised and {} came back
C3_Witness ==
  /\ choice = "5"
  /\ \E i \in 1..Len(trace) :
        /\ RaisedAt(i)
        /\ trace[i].ev = "send_command"
        /\ trace[i + 1].value = EmptyDict

\* C4: create_vlan on a session whose send_config_set does not raise makes one
\* send_config_set call with ["vlan <id>", "name <name>"], sends nothing else
\* and returns True whatever the device echoed.
C4_CreateVlanCommands ==
  (choice = "4" /\ \E i \in 1..Len(trace) : IsSend(trace[i]) /\ ~trace[i].raised) =>
     /\ Len(trace) = 4
     /\ Cardinality({i \in 1..Len(trace) : IsSend(trace[i])}) = 1
     /\ trace[2].ev = "send_config_set"
     /\ trace[2].cmds = << <<"v", "l", "a", "n", " ">> \o typed[1], <<"n", "a", "m", "e", " ">> \o typed[2] >>
     /\ trace[3] = Return("create_vlan", TRUE)

\* the device answered the commands with an error echo
C4_Witness ==
  /\ choice = "4"
  /\ typed = << <<"2", "0">>, <<"D", "A", "T", "A">> >>
  /\ Len(trace) = 4
  /\ trace[2].ev = "send_config_set"
  /\ ~trace[2].raised
  /\ trace[2].output = <<"%", " ", "I", "n", "v", "a", "l", "i", "d", " ", "i", "n", "p", "u", "t">>
  /\ trace[3] = Return("create_vlan", TRUE)

IsFailedConnect(e) == e.ev = "connect" /\ e.cause # "ok"

C6_OnlyExitTerminates ==
  /\ pc \in {"menu", "select_switch", "exited"}
  /\ pc = "exited" <=> choice = "6"
  /\ choice \in DeviceChoices \cup {"other"} => pc = "menu"
  /\ choice = "1" => pc \in {"menu", "select_switch"}

\* the loop went on after the assignment raised in the session
C6_Witness ==
  /\ pc = "menu"
  /\ choice = "5"
  /\ \E i \in 1..Len(trace) : RaisedAt(i) /\ trace[i].ev = "send_config_set"

(* the row pattern and the port list, stated by positions *)
AllIn(s, from, to, S) == \A i \in from..to : s[i] \in S

\* the line without the whitespace around it
Trimmed(line) ==
  IF AllIn(line, 1, Len(line), Whitespace) THEN <<>>
  ELSE LET i == CHOOSE a \in 1..Len(line) :
                  line[a] \notin Whitespace /\ AllIn(line, 1, a - 1, Whitespace)
           j == CHOOSE b \in 1..Len(line) :
                  line[b] \notin Whitespace /\ AllIn(line, b + 1, Len(line), Whitespace)
       IN  SubSeq(line, i, j)

\* the pieces of s between the occurrences of sep, in order
Segments(s, sep) ==
  LET cuts == {0, Len(s) + 1} \cup {i \in 1..Len(s) : s[i] = sep}
      nth(n) == CHOOSE c \in cuts : Cardinality({d \in cuts : d < c}) = n - 1
  IN  [n \in 1..(Cardinality(cuts) - 1) |-> SubSeq(s, nth(n) + 1, nth(n + 1) - 1)]

\* the lengths n >= 1 for which the n characters of s from position from on
\* are all in S
Runs(s, from, S) == {n \in 1..(Len(s) - from + 1) : AllIn(s, from, from + n - 1, S)}

\* every <<a, b, c, d, k>> such that s is a digits, b whitespace characters,
\* c name characters, d whitespace characters, then status k
RowSplits(s) ==
  UNION {UNION {UNION {UNION {
    {<<a, b, c, d, k>> :
       k \in {x \in 1..Len(Statuses) : StartsWith(Drop(s, a + b + c + d), Statuses[x])}}
    : d \in Runs(s, a + b + c + 1, Whitespace)}
    : c \in Runs(s, a + b + 1, NameChars)}
    : b \in Runs(s, a + 1, Whitespace)}
    : a \in Runs(s, 1, Digits)}

MatchesRow(line) == RowSplits(Trimmed(line)) # {}
NonBlank(segment) == Trimmed(segment) # <<>>

ExpectedPorts(tail) ==
  LET kept == SelectSeq(Segments(tail, ","), NonBlank)
  IN  [n \in 1..Len(kept) |-> Trimmed(kept[n])]

ExpectedRow(line) ==
  LET s == Trimmed(line)
      t == CHOOSE x \in RowSplits(s) : TRUE
  IN  [id |-> SubSeq(s, 1, t[1]),
       name |-> SubSeq(s, t[1] + t[2] + 1, t[1] + t[2] + t[3]),
       status |-> Statuses[t[5]],
       ports |-> ExpectedPorts(Drop(s, t[1] + t[2] + t[3] + t[4] + Len(Statuses[t[5]])))]

ExpectedRows(text) ==
  LET rows == SelectSeq(Segments(text, "\n"), MatchesRow)
  IN  [n \in 1..Len(rows) |-> ExpectedRow(rows[n])]

\* C7: get_vlan_brief returns, in input order, one record per line that matches
\* the row pattern and none for any other line, repeated lines giving repeated
\* records; a record's ports are the comma-separated pieces of the text after
\* the status, trimmed, the empty ones dropped.
C7_VlanBriefRows ==
  parsed = "get_vlan_brief" =>
     /\ vlans = ExpectedRows(output)
     /\ \A n \in 1..Len(vlans) : \A m \in 1..Len(vlans[n].ports) :
           /\ vlans[n].ports[m] # <<>>
           /\ \A i \in 1..Len(vlans[n].ports[m]) : vlans[n].ports[m][i] # ","

\* the same row twice, its port list ending in a comma
C7_Witness ==
  /\ parsed = "get_vlan_brief"
  /\ output = <<"2", "0", " ", "M", "G", "M", "T", " ", "a", "c", "t", "i", "v", "e", " ", "G", "i", "0", "/", "1", ",", "\n", "2", "0", " ", "M", "G", "M", "T", " ", "a", "c", "t", "i", "v", "e", " ", "G", "i", "0", "/", "1", ",">>
  /\ Len(vlans) = 2
  /\ vlans[1] = vlans[2]
  /\ vlans[1].ports = << <<"G", "i", "0", "/", "1">> >>

Occurs(label, text) == \E i \in 1..Len(text) : StartsWith(Drop(text, i - 1), label)

\* the label, at least one whitespace character, then a character of class
OccursWithValue(label, class, text) ==
  \E i \in 1..Len(text) :
     /\ StartsWith(Drop(text, i - 1), label)
     /\ \E n \in Runs(text, i + Len(label), Whitespace) :
           /\ i + Len(label) + n <= Len(text)
           /\ text[i + Len(label) + n] \in class

\* C8 as stated: the result has exactly the keys whose labels are in the text.
C8_KeysOfLabelsPresent ==
  parsed = "get_interface_vlan_assignment" =>
     DOMAIN vlan_assignment =
        (IF Occurs(AccessLabel, output) THEN {"access_vlan"} ELSE {})
        \cup (IF Occurs(AdminLabel, output) THEN {"admin_mode"} ELSE {})
        \cup (IF Occurs(OperLabel, output) THEN {"oper_mode"} ELSE {})

\* C8 amended: each of the three fields is decided on its own, and the result
\* has the key of a field exactly when its label is followed by whitespace and
\* then a value of the field's form (a digit for Access Mode VLAN, a word
\* character for the two modes); a label that is absent, or present without
\* such a value, gives no key, never a failure.
C8_KeysOfLabelledValues ==
  parsed = "get_interface_vlan_assignment" =>
     DOMAIN vlan_assignment =
        (IF OccursWithValue(AccessLabel, Digits, output) THEN {"access_vlan"} ELSE {})
        \cup (IF OccursWithValue(AdminLabel, WordChars, output) THEN {"admin_mode"} ELSE {})
        \cup (IF OccursWithValue(OperLabel, WordChars, output) THEN {"oper_mode"} ELSE {})

\* two labels in the text, one of them without a value of its form
C8_Witness ==
  /\ parsed = "get_interface_vlan_assignment"
  /\ Occurs(AccessLabel, output)
  /\ DOMAIN vlan_assignment = {"oper_mode"}
  /\ vlan_assignment["oper_mode"] = <<"d", "o", "w", "n">>

\* C9: in both one-shot scripts every failure between loading the data and
\* sending the commands becomes a failure result; none leaves the script as an
\* uncaught exception.
C9_FailuresBecomeResults ==
  script # "none" => result \in {"True", "False", "completed"}

IsPush(e) == e.ev = "send_config_set"

\* C10: in both scripts every command list handed to send_config_set is the
\* rendered text's non-blank lines in order, so it holds no blank command and
\* is not empty; a rendering without a non-blank line ends the script as a
\* failure before any session is opened.
C10_CommandsAreNonBlankLines ==
  script # "none" =>
     /\ \A i \in 1..Len(calls) :
           IsPush(calls[i]) =>
              /\ calls[i].cmds = KeepNonBlank(SplitLines(rendered_config))
              /\ calls[i].cmds # <<>>
              /\ \A n \in 1..Len(calls[i].cmds) : Trimmed(calls[i].cmds[n]) # <<>>
     /\ KeepNonBlank(SplitLines(rendered_config)) = <<>> => calls = <<>>

AssignCommands(interface_name, vlan_id) ==
  << <<"i", "n", "t", "e", "r", "f", "a", "c", "e", " ">> \o interface_name,
     <<"s", "w", "i", "t", "c", "h", "p", "o", "r", "t", " ", "m", "o", "d", "e", " ", "a", "c", "c", "e", "s", "s">>,
     <<"s", "w", "i", "t", "c", "h", "p", "o", "r", "t", " ", "a", "c", "c", "e", "s", "s", " ", "v", "l", "a", "n", " ">> \o vlan_id >>

Verified(e) == "access_vlan" \in DOMAIN e.value /\ e.value["access_vlan"] = typed[2]

\* C11: choice 5 on a selected switch connects, sends the three assignment
\* commands in one send_config_set, sends the verification query only after
\* that call returned success, and disconnects last, all on the one session it
\* opened; a failed assignment is followed by the disconnect alone, and no
\* outcome of the verification changes the reported success or the disconnect.
C11_AssignThenVerifyThenDisconnect ==
  (choice = "5" /\ trace # <<>>) =>
     /\ pc = "menu"
     /\ trace[1].ev = "connect"
     /\ Opens(trace) <= 1
     /\ trace[1].returned = NoSession => Len(trace) = 1
     /\ trace[1].returned # NoSession =>
           /\ Len(trace) >= 4
           /\ trace[2].ev = "send_config_set"
           /\ trace[2].cmds = AssignCommands(typed[1], typed[2])
           /\ trace[3].ev = "return"
           /\ trace[3].op = "assign_port_to_vlan"
           /\ trace[3].value = ~trace[2].raised
           /\ IsDisconnect(trace[Len(trace)])
           /\ ~trace[3].value =>
                 /\ Len(trace) = 4
                 /\ printed = <<Msg("Failed to assign", typed)>>
           /\ trace[3].value =>
                 /\ Len(trace) = 6
                 /\ trace[4].ev = "send_command"
                 /\ trace[4].cmds = << <<"s", "h", "o", "w", " ", "i", "n", "t", "e", "r", "f", "a", "c", "e", "s", " ">> \o typed[1] \o <<" ", "s", "w", "i", "t", "c", "h", "p", "o", "r", "t">> >>
                 /\ trace[5].ev = "return"
                 /\ trace[5].op = "get_interface_vlan_assignment"
                 /\ Len(printed) = 2
                 /\ printed[1] = Msg("Successfully sent commands to assign", typed)
                 /\ printed[2] = (IF Verified(trace[5])
                                  THEN Msg("Verification: is now in VLAN", typed)
                                  ELSE Msg("Verification: Could not confirm", typed))

\* the assignment succeeded, the verification query raised, and the session
\* was disconnected with the success already reported
C11_Witness ==
  /\ choice = "5"
  /\ Len(trace) = 6
  /\ trace[3].value
  /\ trace[4].ev = "send_command"
  /\ trace[4].raised
  /\ IsDisconnect(trace[6])
  /\ printed[1] = Msg("Successfully sent commands to assign", typed)

\* C12: the selected switch changes only in select_switch, entered by choice 1;
\* choices 2 to 6 and unrecognised input leave it as it is.  With a non-empty
\* list select_switch goes back to the menu only on a number from 1 to the
\* length of the list, the slot then holding that entry of the list; any
\* other text asks again and changes nothing.  A selected switch never gives
\* way to None.
C12_SelectionOnlyByChoice1 ==
  [][/\ (pc = "menu" /\ choice' \in {"2", "3", "4", "5", "6", "other"}) =>
           selected_switch' = selected_switch
     /\ (pc = "menu" /\ choice' = "1") =>
           /\ selected_switch' = selected_switch
           /\ pc' = (IF MANAGED_SWITCHES = <<>> THEN "menu" ELSE "select_switch")
     /\ pc = "select_switch" =>
           /\ MANAGED_SWITCHES # <<>>
           /\ IF /\ IsNumber(typed'[1])
                 /\ 1 <= int(typed'[1])
                 /\ int(typed'[1]) <= Len(MANAGED_SWITCHES)
              THEN /\ selected_switch' = MANAGED_SWITCHES[int(typed'[1])]
                   /\ pc' = "menu"
              ELSE /\ selected_switch' = selected_switch
                   /\ pc' = "select_switch"
     /\ selected_switch # None => selected_switch' # None
     /\ MANAGED_SWITCHES' = MANAGED_SWITCHES]_vars

\* the second switch of the list was picked by typing 2
C12_Witness ==
  /\ pc = "menu"
  /\ choice = "1"
  /\ typed = << <<"2">> >>
  /\ Len(MANAGED_SWITCHES) >= 2
  /\ selected_switch = MANAGED_SWITCHES[2]

====
